---- MODULE Spec2Model ----
(***************************************************************************)
(* Model of the sensor drivers of sensors_rpi_pico.                        *)
(*                                                                         *)
(* The VEML7700 ambient-light sensor driver                                *)
(* (src/lib/veml7700-pico-library/VEML7700.c and VEML7700.h): one caller   *)
(* drives one sensor handle over a blocking I2C bus.  Every public         *)
(* function of the driver is one action; the bus primitives                *)
(* i2c_write_blocking / i2c_read_blocking are the environment: each call   *)
(* returns a byte count or a negative error code chosen nondeterministic-  *)
(* ally, and the bytes a read delivers are chosen nondeterministically.    *)
(* Lux and resolution values are kept in integer units of 0.0001.          *)
(*                                                                         *)
(* Further specifications over the same state: the lux scenario (SpecLux), *)
(* pairs of setter calls (SpecPair), two threads inside setters            *)
(* (SpecThreads), the CMPS12 compass driver (SpecCmps12, SpecCardinal) and *)
(* the TMP117 start-up checks of main() (SpecTmp117).                      *)
(***************************************************************************)
EXTENDS Integers, Sequences, FiniteSets, TLC

(***************************************************************************)
(* Bounds of the model.                                                    *)
(***************************************************************************)
MaxOps == 3         \* public calls made by the caller in one behaviour
MaxCount == 3       \* largest byte count a bus primitive reports
MaxErr == 1         \* bus error codes are -1 .. -MaxErr
MaxPers == 1        \* persistence arguments used by the caller: 0..MaxPers
MaxPsm == 1         \* power-saving-mode arguments used by the caller: 0..MaxPsm

(***************************************************************************)
(* Register map and error codes (VEML7700.h).                              *)
(***************************************************************************)
VEML7700_REG_ALS_CONF == 0
VEML7700_REG_ALS_WH == 1
VEML7700_REG_ALS_WL == 2
VEML7700_REG_POWER_SAVING == 3
VEML7700_REG_ALS == 4
VEML7700_REG_WHITE == 5
VEML7700_REG_ALS_INT == 6
VEML7700_REG_ID == 7

VEML7700_OK == 0
VEML7700_ERROR_INIT == -1
VEML7700_ERROR_I2C_TX == -2
VEML7700_ERROR_I2C_RX == -3
VEML7700_ERROR_CONFIG == -4
VEML7700_ERROR_INVALID_ARG == -5

VEML7700_GAIN_1 == 0
VEML7700_GAIN_2 == 1
VEML7700_GAIN_1_8 == 2
VEML7700_GAIN_1_4 == 3

VEML7700_IT_25MS == 12
VEML7700_IT_50MS == 8
VEML7700_IT_100MS == 0
VEML7700_IT_200MS == 1
VEML7700_IT_400MS == 2
VEML7700_IT_800MS == 3

VEML7700_PERS_1 == 0

veml7700_gain_t == {VEML7700_GAIN_1, VEML7700_GAIN_2, VEML7700_GAIN_1_8, VEML7700_GAIN_1_4}
veml7700_it_t == {VEML7700_IT_25MS, VEML7700_IT_50MS, VEML7700_IT_100MS,
                  VEML7700_IT_200MS, VEML7700_IT_400MS, VEML7700_IT_800MS}

(***************************************************************************)
(* 16-bit arithmetic: the C operators >>, <<, &, | and ~ on uint16_t.      *)
(***************************************************************************)
Shr(x, n) == x \div (2 ^ n)

Shl(x, n) == x * (2 ^ n)

RECURSIVE BitAndN(_, _, _)
BitAndN(x, y, n) ==
    IF n = 0 THEN 0
    ELSE (IF x % 2 = 1 /\ y % 2 = 1 THEN 1 ELSE 0)
         + 2 * BitAndN(x \div 2, y \div 2, n - 1)

RECURSIVE BitOrN(_, _, _)
BitOrN(x, y, n) ==
    IF n = 0 THEN 0
    ELSE (IF x % 2 = 1 \/ y % 2 = 1 THEN 1 ELSE 0)
         + 2 * BitOrN(x \div 2, y \div 2, n - 1)

\* x & y and x | y, truncated to uint16_t as the assignment to a
\* uint16_t field truncates them
BitAnd(x, y) == BitAndN(x, y, 16)

BitOr(x, y) == BitOrN(x, y, 16)

\* x & ~m on uint16_t
BitClear(x, m) == x - BitAnd(x, m)

(***************************************************************************)
(* The caller's arguments and the bus's answers.                           *)
(***************************************************************************)
\* a handle argument: the null pointer or the caller's one sensor structure
Handles == {"NULL", "handle"}

\* an i2c_inst_t* argument
Ports == {"NULL", "i2c0"}

\* what i2c_write_blocking / i2c_read_blocking return: a negative error
\* code or the number of bytes transferred
BusResults == (-MaxErr)..MaxCount

\* bytes of the device-ID register the device may deliver
IdBytes == {0, 40, 129}

\* 16-bit counts the data registers may deliver
RawValues == {1000, 65535}

\* configuration register contents set behind the driver's back
OutOfBandConf == {4864, 65535}

\* threshold arguments used by the caller
Thresholds == {0, 4660}

\* no value stored through the output pointer / no register written yet
NoValue == -1

\* init has not been called on the handle
NotCalled == 1

(***************************************************************************)
(* State.                                                                  *)
(***************************************************************************)
VARIABLES
    i2c_port,       \* veml7700_sensor_t.i2c_port
    config_cache,   \* veml7700_sensor_t.config_cache
    psm_cache,      \* veml7700_sensor_t.psm_cache
    initialized,    \* veml7700_sensor_t.initialized
    current_gain,   \* veml7700_sensor_t.current_gain
    current_it,     \* veml7700_sensor_t.current_it
    dev_conf,       \* device register 0x00: last value whose write completed
    op,             \* the public function called last
    arg,            \* its handle and value arguments
    ret,            \* its return value
    bus,            \* the bus primitives it invoked, in order
    out,            \* what it stored through its output pointer
    slept,          \* milliseconds it spent in sleep_ms
    nops,           \* number of public calls made so far
    init_last,      \* history: return value of the latest init on the handle
    init_run,       \* history: the same, ignoring inits rejected for a null argument
    device,         \* what the device delivers: "any" value or what it "stores"
    hist,           \* history: the calls made so far, where tracing is on
    compass,        \* the cmps12_t structure of the compass driver
    tmp117,         \* start-up of main(): position, I2C frequency, begin() status
    thr             \* two threads inside setters of the one handle

sensor == <<i2c_port, config_cache, psm_cache, initialized, current_gain, current_it>>

vars == <<i2c_port, config_cache, psm_cache, initialized, current_gain, current_it,
          dev_conf, op, arg, ret, bus, out, slept, nops, init_last, init_run,
          device, hist, compass, tmp117, thr>>

\* what a call of the compass driver leaves alone
veml_state == <<i2c_port, config_cache, psm_cache, initialized, current_gain,
                current_it, dev_conf, slept, nops, init_last, init_run, device, hist>>

(***************************************************************************)
(* Register transport.                                                     *)
(***************************************************************************)
\* one invocation of a bus primitive: the bytes handed over (write) or
\* delivered (read), the requested length and the result reported
BusCall(fn, bytes, len, res) == [fn |-> fn, bytes |-> bytes, len |-> len, res |-> res]

\* veml7700_write_reg testing only for a negative result
veml7700_write_reg_no_count(valid, reg, data, result) ==
    IF ~valid
    THEN [status |-> VEML7700_ERROR_CONFIG, calls |-> <<>>]
    ELSE LET buffer == <<reg, BitAnd(data, 255), BitAnd(Shr(data, 8), 255)>>
             call == BusCall("i2c_write_blocking", buffer, 3, result)
         IN  IF result < 0
             THEN [status |-> VEML7700_ERROR_I2C_TX, calls |-> <<call>>]
             ELSE [status |-> VEML7700_OK, calls |-> <<call>>]

\* static int veml7700_write_reg(sensor, reg, data): `valid` is
\* sensor && sensor->initialized, `result` the bus's answer
veml7700_write_reg(valid, reg, data, result) ==
    IF ~valid
    THEN [status |-> VEML7700_ERROR_CONFIG, calls |-> <<>>]
    ELSE LET buffer == <<reg, BitAnd(data, 255), BitAnd(Shr(data, 8), 255)>>
             call == BusCall("i2c_write_blocking", buffer, 3, result)
         IN  IF result < 0
             THEN [status |-> VEML7700_ERROR_I2C_TX, calls |-> <<call>>]
             ELSE IF result # 3
             THEN [status |-> VEML7700_ERROR_I2C_TX, calls |-> <<call>>]
             ELSE [status |-> VEML7700_OK, calls |-> <<call>>]

\* static int veml7700_read_reg(sensor, reg, data): `hasData` is data != NULL,
\* `r1`, `r2` the answers of the pointer write and of the read, `buffer` the
\* two bytes the read delivers
veml7700_read_reg(valid, reg, hasData, r1, r2, buffer) ==
    IF ~valid
    THEN [status |-> VEML7700_ERROR_CONFIG, calls |-> <<>>, data |-> NoValue]
    ELSE IF ~hasData
    THEN [status |-> VEML7700_ERROR_INVALID_ARG, calls |-> <<>>, data |-> NoValue]
    ELSE LET c1 == BusCall("i2c_write_blocking", <<reg>>, 1, r1)
             c2 == BusCall("i2c_read_blocking", IF r2 = 2 THEN buffer ELSE <<>>, 2, r2)
         IN  IF r1 < 0
             THEN [status |-> VEML7700_ERROR_I2C_TX, calls |-> <<c1>>, data |-> NoValue]
             ELSE IF r1 # 1
             THEN [status |-> VEML7700_ERROR_I2C_TX, calls |-> <<c1>>, data |-> NoValue]
             ELSE IF r2 < 0
             THEN [status |-> VEML7700_ERROR_I2C_RX, calls |-> <<c1, c2>>, data |-> NoValue]
             ELSE IF r2 # 2
             THEN [status |-> VEML7700_ERROR_I2C_RX, calls |-> <<c1, c2>>, data |-> NoValue]
             ELSE [status |-> VEML7700_OK, calls |-> <<c1, c2>>,
                   data |-> BitOr(Shl(buffer[2], 8), buffer[1])]

\* the two bytes a device delivers for a 16-bit register value, low byte first
DevBytes(v) == <<v % 256, v \div 256>>

\* the possible outcomes of one veml7700_read_reg call on a register that
\* may deliver any value of `values`
ReadOutcomes(valid, reg, hasData, values) ==
    {veml7700_read_reg(valid, reg, hasData, r1, r2, DevBytes(v)) :
        r1 \in BusResults, r2 \in BusResults, v \in values}

\* the possible outcomes of one veml7700_write_reg call
WriteOutcomes(valid, reg, data) ==
    {veml7700_write_reg(valid, reg, data, result) : result \in BusResults}

\* register 0x00 of the device after the bus calls of one operation: a
\* complete 3-byte write addressed to it stores its two data bytes
RECURSIVE DevConfAfter(_, _)
DevConfAfter(d, calls) ==
    IF calls = <<>> THEN d
    ELSE LET c == Head(calls)
             d1 == IF /\ c.fn = "i2c_write_blocking"
                      /\ c.len = 3
                      /\ c.res = 3
                      /\ c.bytes[1] = VEML7700_REG_ALS_CONF
                   THEN c.bytes[2] + 256 * c.bytes[3]
                   ELSE d
         IN  DevConfAfter(d1, Tail(calls))

(***************************************************************************)
(* Resolution, in units of 0.0001 lux per count.                           *)
(***************************************************************************)
\* the first switch with the factors of GAIN_1 and GAIN_2 exchanged
GainVal8_swapped(gain) ==
    CASE gain = VEML7700_GAIN_1_8 -> 1
      [] gain = VEML7700_GAIN_1_4 -> 2
      [] gain = VEML7700_GAIN_1 -> 16
      [] gain = VEML7700_GAIN_2 -> 8
      [] OTHER -> 8

\* the gain factor of the first switch, in eighths (0.125 is 1)
GainVal8(gain) ==
    CASE gain = VEML7700_GAIN_1_8 -> 1
      [] gain = VEML7700_GAIN_1_4 -> 2
      [] gain = VEML7700_GAIN_1 -> 8
      [] gain = VEML7700_GAIN_2 -> 16
      [] OTHER -> 8

\* the integration time of the second switch, in milliseconds
ItVal(it) ==
    CASE it = VEML7700_IT_25MS -> 25
      [] it = VEML7700_IT_50MS -> 50
      [] it = VEML7700_IT_100MS -> 100
      [] it = VEML7700_IT_200MS -> 200
      [] it = VEML7700_IT_400MS -> 400
      [] it = VEML7700_IT_800MS -> 800
      [] OTHER -> 100

\* static float veml7700_get_resolution(gain, it):
\* 0.0042 * (2.0 / gain_val) * (800.0 / it_val), clamped
veml7700_get_resolution(gain, it) ==
    LET base_resolution_at_ref == 42
        resolution == (base_resolution_at_ref * (2 * 8) * 800)
                          \div (GainVal8(gain) * ItVal(it))
    IN  IF resolution > 21504 THEN 21504
        ELSE IF resolution < 42 THEN 42
        ELSE resolution

\* the float -1.0f in units of 0.0001
LuxError == -10000

(***************************************************************************)
(* Public functions.  Each action is one complete call.                    *)
(***************************************************************************)
\* the opening check without its sensor->initialized half
Valid_handle_only(h) == h = "handle"

\* sensor && sensor->initialized, the check that opens every function
Valid(h) == h = "handle" /\ initialized

\* what the caller observes of a call, and the device after its bus calls
Return(name, args, status, calls, o, ms) ==
    /\ op' = name
    /\ arg' = args
    /\ ret' = status
    /\ bus' = calls
    /\ out' = o
    /\ slept' = ms
    /\ nops' = nops + 1
    /\ dev_conf' = DevConfAfter(dev_conf, calls)
    /\ init_last' = IF name = "init" /\ args[1] = "handle" THEN status ELSE init_last
    /\ init_run' = IF name = "init" /\ status # VEML7700_ERROR_INVALID_ARG
                   THEN status ELSE init_run
    /\ hist' = IF hist.on
               THEN [hist EXCEPT !.calls = Append(@, <<name, args, status>>)]
               ELSE hist
    /\ UNCHANGED <<device, compass, tmp117, thr>>

\* what register 0x00 may deliver when read
ConfValues ==
    (IF device = "stores" THEN {} ELSE OutOfBandConf)
        \cup (IF dev_conf = NoValue THEN {} ELSE {dev_conf})

\* what the ALS data register may deliver when read
AlsValues == IF device = "stores" THEN {1000} ELSE RawValues

\* the device-ID test requiring both sentinel bytes
DeviceIdAccepted_both(device_id) ==
    BitAnd(device_id, 255) = 129 /\ Shr(device_id, 8) = 40

\* the device-ID test of veml7700_init: false when
\* (device_id & 0xFF) != 0x81 && (device_id >> 8) != 0x28
DeviceIdAccepted(device_id) ==
    ~(BitAnd(device_id, 255) # 129 /\ Shr(device_id, 8) # 40)

\* the initial configuration with the shutdown bit set
DefaultConfig_shutdown ==
    BitOr(BitOr(BitOr(BitOr(Shl(VEML7700_GAIN_1, 11), Shl(VEML7700_IT_100MS, 6)),
                      Shl(VEML7700_PERS_1, 4)), Shl(0, 1)), Shl(1, 0))

\* the configuration veml7700_init builds: gain x1, 100 ms, persistence 1,
\* interrupt disabled (0 << 1), not shut down (0 << 0)
DefaultConfig ==
    BitOr(BitOr(BitOr(BitOr(Shl(VEML7700_GAIN_1, 11), Shl(VEML7700_IT_100MS, 6)),
                      Shl(VEML7700_PERS_1, 4)), Shl(0, 1)), Shl(0, 0))

\* veml7700_init storing the defaults only once the first write succeeded
veml7700_init_commit_after_write(h, port) ==
    /\ nops < MaxOps
    /\ IF h = "NULL" \/ port = "NULL"
       THEN /\ Return("init", <<h, port>>, VEML7700_ERROR_INVALID_ARG, <<>>, NoValue, 0)
            /\ UNCHANGED sensor
       ELSE /\ i2c_port' = port
            /\ \E rd \in ReadOutcomes(TRUE, VEML7700_REG_ID, TRUE,
                                      {hi * 256 + lo : hi \in IdBytes, lo \in IdBytes}) :
                 IF rd.status # VEML7700_OK
                 THEN /\ initialized' = FALSE
                      /\ UNCHANGED <<config_cache, psm_cache, current_gain, current_it>>
                      /\ Return("init", <<h, port>>, VEML7700_ERROR_INIT, rd.calls, NoValue, 0)
                 ELSE IF ~DeviceIdAccepted(rd.data)
                 THEN /\ initialized' = FALSE
                      /\ UNCHANGED <<config_cache, psm_cache, current_gain, current_it>>
                      /\ Return("init", <<h, port>>, VEML7700_ERROR_INIT, rd.calls, NoValue, 0)
                 ELSE LET cc == DefaultConfig
                      IN
                      /\ \E w1 \in WriteOutcomes(TRUE, VEML7700_REG_ALS_CONF, cc) :
                           IF w1.status # VEML7700_OK
                           THEN /\ initialized' = FALSE
                                /\ UNCHANGED <<psm_cache, current_gain, current_it,
                                               config_cache>>
                                /\ Return("init", <<h, port>>, w1.status,
                                          rd.calls \o w1.calls, NoValue, 0)
                           ELSE
                           /\ current_gain' = VEML7700_GAIN_1
                           /\ current_it' = VEML7700_IT_100MS
                           /\ config_cache' = cc
                           /\ psm_cache' = 0
                           /\ \E w2 \in WriteOutcomes(TRUE, VEML7700_REG_POWER_SAVING, 0) :
                                IF w2.status # VEML7700_OK
                                THEN /\ initialized' = FALSE
                                     /\ Return("init", <<h, port>>, w2.status,
                                               rd.calls \o w1.calls \o w2.calls, NoValue, 0)
                                ELSE
                                \E w3 \in WriteOutcomes(TRUE, VEML7700_REG_ALS_WH, 65535) :
                                  IF w3.status # VEML7700_OK
                                  THEN /\ initialized' = FALSE
                                       /\ Return("init", <<h, port>>, w3.status,
                                                 rd.calls \o w1.calls \o w2.calls \o w3.calls,
                                                 NoValue, 0)
                                  ELSE
                                  \E w4 \in WriteOutcomes(TRUE, VEML7700_REG_ALS_WL, 0) :
                                    IF w4.status # VEML7700_OK
                                    THEN /\ initialized' = FALSE
                                         /\ Return("init", <<h, port>>, w4.status,
                                                   rd.calls \o w1.calls \o w2.calls
                                                       \o w3.calls \o w4.calls,
                                                   NoValue, 0)
                                    ELSE /\ initialized' = TRUE
                                         /\ Return("init", <<h, port>>, VEML7700_OK,
                                                   rd.calls \o w1.calls \o w2.calls
                                                       \o w3.calls \o w4.calls,
                                                   NoValue, 10)

\* int veml7700_init(sensor, i2c_port, sda_pin, scl_pin, baudrate); the
\* transport calls see sensor->initialized = true, set at line 173
veml7700_init(h, port) ==
    /\ nops < MaxOps
    /\ IF h = "NULL" \/ port = "NULL"
       THEN /\ Return("init", <<h, port>>, VEML7700_ERROR_INVALID_ARG, <<>>, NoValue, 0)
            /\ UNCHANGED sensor
       ELSE /\ i2c_port' = port
            /\ \E rd \in ReadOutcomes(TRUE, VEML7700_REG_ID, TRUE,
                                      {hi * 256 + lo : hi \in IdBytes, lo \in IdBytes}) :
                 IF rd.status # VEML7700_OK
                 THEN /\ initialized' = FALSE
                      /\ UNCHANGED <<config_cache, psm_cache, current_gain, current_it>>
                      /\ Return("init", <<h, port>>, VEML7700_ERROR_INIT, rd.calls, NoValue, 0)
                 ELSE IF ~DeviceIdAccepted(rd.data)
                 THEN /\ initialized' = FALSE
                      /\ UNCHANGED <<config_cache, psm_cache, current_gain, current_it>>
                      /\ Return("init", <<h, port>>, VEML7700_ERROR_INIT, rd.calls, NoValue, 0)
                 ELSE LET cc == DefaultConfig
                      IN
                      /\ current_gain' = VEML7700_GAIN_1
                      /\ current_it' = VEML7700_IT_100MS
                      /\ config_cache' = cc
                      /\ \E w1 \in WriteOutcomes(TRUE, VEML7700_REG_ALS_CONF, cc) :
                           IF w1.status # VEML7700_OK
                           THEN /\ initialized' = FALSE
                                /\ UNCHANGED psm_cache
                                /\ Return("init", <<h, port>>, w1.status,
                                          rd.calls \o w1.calls, NoValue, 0)
                           ELSE
                           /\ psm_cache' = 0
                           /\ \E w2 \in WriteOutcomes(TRUE, VEML7700_REG_POWER_SAVING, 0) :
                                IF w2.status # VEML7700_OK
                                THEN /\ initialized' = FALSE
                                     /\ Return("init", <<h, port>>, w2.status,
                                               rd.calls \o w1.calls \o w2.calls, NoValue, 0)
                                ELSE
                                \E w3 \in WriteOutcomes(TRUE, VEML7700_REG_ALS_WH, 65535) :
                                  IF w3.status # VEML7700_OK
                                  THEN /\ initialized' = FALSE
                                       /\ Return("init", <<h, port>>, w3.status,
                                                 rd.calls \o w1.calls \o w2.calls \o w3.calls,
                                                 NoValue, 0)
                                  ELSE
                                  \E w4 \in WriteOutcomes(TRUE, VEML7700_REG_ALS_WL, 0) :
                                    IF w4.status # VEML7700_OK
                                    THEN /\ initialized' = FALSE
                                         /\ Return("init", <<h, port>>, w4.status,
                                                   rd.calls \o w1.calls \o w2.calls
                                                       \o w3.calls \o w4.calls,
                                                   NoValue, 0)
                                    ELSE /\ initialized' = TRUE
                                         /\ Return("init", <<h, port>>, VEML7700_OK,
                                                   rd.calls \o w1.calls \o w2.calls
                                                       \o w3.calls \o w4.calls,
                                                   NoValue, 10)

\* the three plain 16-bit register reads: read_als, read_white,
\* read_interrupt_status and read_device_id share this body
ReadRegister(name, h, hasOut, reg, values) ==
    /\ UNCHANGED sensor
    /\ IF ~Valid(h)
       THEN Return(name, <<h, hasOut>>, VEML7700_ERROR_CONFIG, <<>>, NoValue, 0)
       ELSE IF ~hasOut
       THEN Return(name, <<h, hasOut>>, VEML7700_ERROR_INVALID_ARG, <<>>, NoValue, 0)
       ELSE \E rd \in ReadOutcomes(Valid(h), reg, hasOut, values) :
                Return(name, <<h, hasOut>>, rd.status, rd.calls, rd.data, 0)

\* int veml7700_read_als(sensor, als_value)
veml7700_read_als(h, hasOut) ==
    /\ nops < MaxOps
    /\ ReadRegister("read_als", h, hasOut, VEML7700_REG_ALS, AlsValues)

\* int veml7700_read_white(sensor, white_value)
veml7700_read_white(h, hasOut) ==
    /\ nops < MaxOps
    /\ ReadRegister("read_white", h, hasOut, VEML7700_REG_WHITE, RawValues)

\* int veml7700_read_interrupt_status(sensor, interrupt_status)
veml7700_read_interrupt_status(h, hasOut) ==
    /\ nops < MaxOps
    /\ ReadRegister("read_interrupt_status", h, hasOut, VEML7700_REG_ALS_INT, RawValues)

\* int veml7700_read_device_id(sensor, device_id)
veml7700_read_device_id(h, hasOut) ==
    /\ nops < MaxOps
    /\ ReadRegister("read_device_id", h, hasOut, VEML7700_REG_ID, RawValues)

\* the gain field taken one bit too high
DecodeGain_shift12(conf) == BitAnd(Shr(conf, 12), 3)

\* the gain and integration-time fields of a configuration register value
DecodeGain(conf) == BitAnd(Shr(conf, 11), 3)

DecodeIt(conf) == BitAnd(Shr(conf, 6), 15)

\* the failure exits of veml7700_read_lux leaving *lux_value alone
ReadLuxFail_no_store(h, hasOut, status, calls) ==
    /\ Return("read_lux", <<h, hasOut>>, status, calls, NoValue, 0)
    /\ UNCHANGED sensor

\* the two failure exits of veml7700_read_lux: *lux_value = -1.0f; return status
ReadLuxFail(h, hasOut, status, calls) ==
    /\ Return("read_lux", <<h, hasOut>>, status, calls, LuxError, 0)
    /\ UNCHANGED sensor

\* int veml7700_read_lux(sensor, lux_value)
veml7700_read_lux(h, hasOut) ==
    /\ nops < MaxOps
    /\ IF ~Valid(h)
       THEN /\ Return("read_lux", <<h, hasOut>>, VEML7700_ERROR_CONFIG, <<>>, NoValue, 0)
            /\ UNCHANGED sensor
       ELSE IF ~hasOut
       THEN /\ Return("read_lux", <<h, hasOut>>, VEML7700_ERROR_INVALID_ARG, <<>>, NoValue, 0)
            /\ UNCHANGED sensor
       ELSE \E als \in ReadOutcomes(Valid(h), VEML7700_REG_ALS, TRUE, AlsValues) :
              IF als.status # VEML7700_OK
              THEN ReadLuxFail(h, hasOut, als.status, als.calls)
              ELSE \E cf \in ReadOutcomes(Valid(h), VEML7700_REG_ALS_CONF, TRUE, ConfValues) :
                     IF cf.status # VEML7700_OK
                     THEN ReadLuxFail(h, hasOut, cf.status, als.calls \o cf.calls)
                     ELSE LET gain == DecodeGain(cf.data)
                              it == DecodeIt(cf.data)
                              resolution == veml7700_get_resolution(gain, it)
                          IN  /\ config_cache' = cf.data
                              /\ current_gain' = gain
                              /\ current_it' = it
                              /\ UNCHANGED <<i2c_port, psm_cache, initialized>>
                              /\ Return("read_lux", <<h, hasOut>>, VEML7700_OK,
                                        als.calls \o cf.calls, als.data * resolution, 0)

\* the shadow after each setter's two statements
\*   cache &= ~(mask << k); cache |= (value << k);
\* set_gain overwriting the whole shadow with its own field
ConfigWithGain_assign(cache, gain) == Shl(gain, 11)

\* set_gain: bits 12..11 of config_cache
ConfigWithGain(cache, gain) == BitOr(BitClear(cache, Shl(3, 11)), Shl(gain, 11))

\* set_integration_time clearing with the two-bit mask 0b11
ConfigWithIt_narrow(cache, it) == BitOr(BitClear(cache, Shl(3, 6)), Shl(it, 6))

\* set_integration_time: bits 9..6 of config_cache
ConfigWithIt(cache, it) == BitOr(BitClear(cache, Shl(15, 6)), Shl(it, 6))

\* set_persistence: bits 5..4 of config_cache
ConfigWithPers(cache, pers) == BitOr(BitClear(cache, Shl(3, 4)), Shl(pers, 4))

\* enable_interrupt: bit 1 of config_cache
ConfigWithInt(cache, enable) ==
    IF enable THEN BitOr(cache, Shl(1, 1)) ELSE BitClear(cache, Shl(1, 1))

\* power_on: bit 0 of config_cache cleared
ConfigPoweredOn(cache) == BitClear(cache, Shl(1, 0))

\* shutdown assigning the shutdown bit instead of or-ing it in
ConfigShutDown_assign(cache) == Shl(1, 0)

\* shutdown: bit 0 of config_cache set
ConfigShutDown(cache) == BitOr(cache, Shl(1, 0))

\* enable_power_saving: bit 0 of psm_cache
PsmWithEnable(cache, enable) ==
    IF enable THEN BitOr(cache, Shl(1, 0)) ELSE BitClear(cache, Shl(1, 0))

\* set_power_saving_mode: bits 2..1 of psm_cache
PsmWithMode(cache, psm) == BitOr(BitClear(cache, Shl(3, 1)), Shl(psm, 1))

\* veml7700_set_gain storing current_gain whatever the write's status
veml7700_set_gain_always(h, gain) ==
    /\ nops < MaxOps
    /\ IF ~Valid(h)
       THEN /\ Return("set_gain", <<h, gain>>, VEML7700_ERROR_CONFIG, <<>>, NoValue, 0)
            /\ UNCHANGED sensor
       ELSE LET cc == ConfigWithGain(config_cache, gain)
            IN  \E w \in WriteOutcomes(Valid(h), VEML7700_REG_ALS_CONF, cc) :
                  /\ config_cache' = cc
                  /\ current_gain' = gain
                  /\ UNCHANGED <<i2c_port, psm_cache, initialized, current_it>>
                  /\ Return("set_gain", <<h, gain>>, w.status, w.calls, NoValue, 0)

\* int veml7700_set_gain(sensor, gain)
veml7700_set_gain(h, gain) ==
    /\ nops < MaxOps
    /\ IF ~Valid(h)
       THEN /\ Return("set_gain", <<h, gain>>, VEML7700_ERROR_CONFIG, <<>>, NoValue, 0)
            /\ UNCHANGED sensor
       ELSE LET cc == ConfigWithGain(config_cache, gain)
            IN  \E w \in WriteOutcomes(Valid(h), VEML7700_REG_ALS_CONF, cc) :
                  /\ config_cache' = cc
                  /\ current_gain' = IF w.status = VEML7700_OK THEN gain ELSE current_gain
                  /\ UNCHANGED <<i2c_port, psm_cache, initialized, current_it>>
                  /\ Return("set_gain", <<h, gain>>, w.status, w.calls, NoValue, 0)

\* int veml7700_set_integration_time(sensor, it)
veml7700_set_integration_time(h, it) ==
    /\ nops < MaxOps
    /\ IF ~Valid(h)
       THEN /\ Return("set_integration_time", <<h, it>>, VEML7700_ERROR_CONFIG, <<>>, NoValue, 0)
            /\ UNCHANGED sensor
       ELSE LET cc == ConfigWithIt(config_cache, it)
            IN  \E w \in WriteOutcomes(Valid(h), VEML7700_REG_ALS_CONF, cc) :
                  /\ config_cache' = cc
                  /\ current_it' = IF w.status = VEML7700_OK THEN it ELSE current_it
                  /\ UNCHANGED <<i2c_port, psm_cache, initialized, current_gain>>
                  /\ Return("set_integration_time", <<h, it>>, w.status, w.calls, NoValue, 0)

\* the same functions handing the shadow to the write before changing it
WriteConfig_stale(name, h, a, cc, ms) ==
    IF ~Valid(h)
    THEN /\ Return(name, <<h, a>>, VEML7700_ERROR_CONFIG, <<>>, NoValue, 0)
         /\ UNCHANGED sensor
    ELSE \E w \in WriteOutcomes(Valid(h), VEML7700_REG_ALS_CONF, config_cache) :
           /\ config_cache' = cc
           /\ UNCHANGED <<i2c_port, psm_cache, initialized, current_gain, current_it>>
           /\ Return(name, <<h, a>>, w.status, w.calls, NoValue,
                     IF w.status = VEML7700_OK THEN ms ELSE 0)

\* the functions that change config_cache and write it to register 0x00
\* without touching another field: set_persistence, enable_interrupt,
\* power_on and shutdown; `ms` is the delay made after a successful write
WriteConfig(name, h, a, cc, ms) ==
    IF ~Valid(h)
    THEN /\ Return(name, <<h, a>>, VEML7700_ERROR_CONFIG, <<>>, NoValue, 0)
         /\ UNCHANGED sensor
    ELSE \E w \in WriteOutcomes(Valid(h), VEML7700_REG_ALS_CONF, cc) :
           /\ config_cache' = cc
           /\ UNCHANGED <<i2c_port, psm_cache, initialized, current_gain, current_it>>
           /\ Return(name, <<h, a>>, w.status, w.calls, NoValue,
                     IF w.status = VEML7700_OK THEN ms ELSE 0)

\* int veml7700_set_persistence(sensor, pers)
veml7700_set_persistence(h, pers) ==
    /\ nops < MaxOps
    /\ WriteConfig("set_persistence", h, pers,
                   ConfigWithPers(config_cache, pers), 0)

\* int veml7700_enable_interrupt(sensor, enable)
veml7700_enable_interrupt(h, enable) ==
    /\ nops < MaxOps
    /\ WriteConfig("enable_interrupt", h, enable,
                   ConfigWithInt(config_cache, enable), 0)

\* int veml7700_power_on(sensor)
veml7700_power_on(h) ==
    /\ nops < MaxOps
    /\ WriteConfig("power_on", h, NoValue, ConfigPoweredOn(config_cache), 10)

\* veml7700_shutdown taking the handle out of service as well
veml7700_shutdown_deinit(h) ==
    /\ nops < MaxOps
    /\ IF ~Valid(h)
       THEN /\ Return("shutdown", <<h, NoValue>>, VEML7700_ERROR_CONFIG, <<>>, NoValue, 0)
            /\ UNCHANGED sensor
       ELSE \E w \in WriteOutcomes(Valid(h), VEML7700_REG_ALS_CONF,
                                   ConfigShutDown(config_cache)) :
              /\ config_cache' = ConfigShutDown(config_cache)
              /\ initialized' = FALSE
              /\ UNCHANGED <<i2c_port, psm_cache, current_gain, current_it>>
              /\ Return("shutdown", <<h, NoValue>>, w.status, w.calls, NoValue, 0)

\* int veml7700_shutdown(sensor)
veml7700_shutdown(h) ==
    /\ nops < MaxOps
    /\ WriteConfig("shutdown", h, NoValue, ConfigShutDown(config_cache), 0)

\* set_high_threshold and set_low_threshold: one write of the argument
WriteThreshold(name, h, reg, threshold) ==
    /\ UNCHANGED sensor
    /\ IF ~Valid(h)
       THEN Return(name, <<h, threshold>>, VEML7700_ERROR_CONFIG, <<>>, NoValue, 0)
       ELSE \E w \in WriteOutcomes(Valid(h), reg, threshold) :
                Return(name, <<h, threshold>>, w.status, w.calls, NoValue, 0)

\* int veml7700_set_high_threshold(sensor, threshold)
veml7700_set_high_threshold(h, threshold) ==
    /\ nops < MaxOps
    /\ WriteThreshold("set_high_threshold", h, VEML7700_REG_ALS_WH, threshold)

\* veml7700_set_low_threshold writing to the high-threshold register
veml7700_set_low_threshold_high_reg(h, threshold) ==
    /\ nops < MaxOps
    /\ WriteThreshold("set_low_threshold", h, VEML7700_REG_ALS_WH, threshold)

\* int veml7700_set_low_threshold(sensor, threshold)
veml7700_set_low_threshold(h, threshold) ==
    /\ nops < MaxOps
    /\ WriteThreshold("set_low_threshold", h, VEML7700_REG_ALS_WL, threshold)

\* the functions that change psm_cache and write it to register 0x03
WritePsm(name, h, a, pc) ==
    IF ~Valid(h)
    THEN /\ Return(name, <<h, a>>, VEML7700_ERROR_CONFIG, <<>>, NoValue, 0)
         /\ UNCHANGED sensor
    ELSE \E w \in WriteOutcomes(Valid(h), VEML7700_REG_POWER_SAVING, pc) :
           /\ psm_cache' = pc
           /\ UNCHANGED <<i2c_port, config_cache, initialized, current_gain, current_it>>
           /\ Return(name, <<h, a>>, w.status, w.calls, NoValue, 0)

\* int veml7700_enable_power_saving(sensor, enable)
veml7700_enable_power_saving(h, enable) ==
    /\ nops < MaxOps
    /\ WritePsm("enable_power_saving", h, enable,
                PsmWithEnable(psm_cache, enable))

\* int veml7700_set_power_saving_mode(sensor, psm)
veml7700_set_power_saving_mode(h, psm) ==
    /\ nops < MaxOps
    /\ WritePsm("set_power_saving_mode", h, psm,
                PsmWithMode(psm_cache, psm))

(***************************************************************************)
(* The caller: a zero-initialised handle (static storage), then any        *)
(* sequence of at most MaxOps calls with any arguments.                    *)
(***************************************************************************)
\* the light sensor's handle before any call, and its device
SensorAtRest ==
    /\ i2c_port = "NULL"
    /\ config_cache = 0
    /\ psm_cache = 0
    /\ initialized = FALSE
    /\ current_gain = 0
    /\ current_it = 0
    /\ dev_conf = NoValue
    /\ slept = 0
    /\ nops = 0
    /\ init_last = NotCalled
    /\ init_run = NotCalled
    /\ device = "any"
    /\ hist = [on |-> FALSE, calls |-> <<>>]

\* a cmps12_t in static storage before cmps12_init
CompassAtRest ==
    compass = [i2c |-> "NULL", angle8 |-> 0, angle16 |-> 0, pitch |-> 0, roll |-> 0]

\* main() before i2c_init, in the build with the always-successful begin()
StartupAtRest ==
    tmp117 = [pc |-> "i2c_init", frequency |-> 0, begin |-> "stub",
              status |-> 0, spins |-> 0]

\* no thread inside a setter
ThreadsAtRest ==
    thr = [pc |-> <<"idle", "idle">>, reg |-> <<0, 0>>, val |-> <<0, 0>>,
           ret |-> <<0, 0>>, overlapped |-> FALSE, build |-> "plain"]

Init ==
    /\ SensorAtRest
    /\ CompassAtRest
    /\ StartupAtRest
    /\ ThreadsAtRest
    /\ op = "none"
    /\ arg = <<>>
    /\ ret = VEML7700_OK
    /\ bus = <<>>
    /\ out = NoValue

Next ==
    \/ \E h \in Handles, port \in Ports : veml7700_init(h, port)
    \/ \E h \in Handles, hasOut \in BOOLEAN : veml7700_read_als(h, hasOut)
    \/ \E h \in Handles, hasOut \in BOOLEAN : veml7700_read_white(h, hasOut)
    \/ \E h \in Handles, hasOut \in BOOLEAN : veml7700_read_lux(h, hasOut)
    \/ \E h \in Handles, gain \in veml7700_gain_t : veml7700_set_gain(h, gain)
    \/ \E h \in Handles, it \in veml7700_it_t : veml7700_set_integration_time(h, it)
    \/ \E h \in Handles, pers \in 0..MaxPers : veml7700_set_persistence(h, pers)
    \/ \E h \in Handles, enable \in BOOLEAN : veml7700_enable_interrupt(h, enable)
    \/ \E h \in Handles, t \in Thresholds : veml7700_set_high_threshold(h, t)
    \/ \E h \in Handles, t \in Thresholds : veml7700_set_low_threshold(h, t)
    \/ \E h \in Handles, hasOut \in BOOLEAN : veml7700_read_interrupt_status(h, hasOut)
    \/ \E h \in Handles, enable \in BOOLEAN : veml7700_enable_power_saving(h, enable)
    \/ \E h \in Handles, psm \in 0..MaxPsm : veml7700_set_power_saving_mode(h, psm)
    \/ \E h \in Handles : veml7700_power_on(h)
    \/ \E h \in Handles : veml7700_shutdown(h)
    \/ \E h \in Handles, hasOut \in BOOLEAN : veml7700_read_device_id(h, hasOut)

Spec == Init /\ [][Next]_vars

(***************************************************************************)
(* The lux scenario: the handle as a successful veml7700_init leaves it,   *)
(* on a device that stores what is written to register 0x00 and whose ALS  *)
(* register holds 1000 counts; the caller sets gain and integration time   *)
(* and reads lux, and the calls are traced.                                *)
(***************************************************************************)
\* gain and integration-time arguments used by the caller of the scenario
LuxGains == {VEML7700_GAIN_1, VEML7700_GAIN_2}

LuxIts == {VEML7700_IT_100MS, VEML7700_IT_800MS}

\* the bus calls of a veml7700_init whose every transfer is complete
InitCalls ==
    veml7700_read_reg(TRUE, VEML7700_REG_ID, TRUE, 1, 2, <<129, 0>>).calls
        \o veml7700_write_reg(TRUE, VEML7700_REG_ALS_CONF, DefaultConfig, 3).calls
        \o veml7700_write_reg(TRUE, VEML7700_REG_POWER_SAVING, 0, 3).calls
        \o veml7700_write_reg(TRUE, VEML7700_REG_ALS_WH, 65535, 3).calls
        \o veml7700_write_reg(TRUE, VEML7700_REG_ALS_WL, 0, 3).calls

InitLux ==
    /\ i2c_port = "i2c0"
    /\ config_cache = DefaultConfig
    /\ psm_cache = 0
    /\ initialized = TRUE
    /\ current_gain = VEML7700_GAIN_1
    /\ current_it = VEML7700_IT_100MS
    /\ dev_conf = DevConfAfter(NoValue, InitCalls)
    /\ op = "init"
    /\ arg = <<"handle", "i2c0">>
    /\ ret = VEML7700_OK
    /\ bus = InitCalls
    /\ out = NoValue
    /\ slept = 10
    /\ nops = 0
    /\ init_last = VEML7700_OK
    /\ init_run = VEML7700_OK
    /\ device = "stores"
    /\ hist = [on |-> TRUE, calls |-> <<>>]
    /\ CompassAtRest
    /\ StartupAtRest
    /\ ThreadsAtRest

NextLux ==
    \/ \E gain \in LuxGains : veml7700_set_gain("handle", gain)
    \/ \E it \in LuxIts : veml7700_set_integration_time("handle", it)
    \/ veml7700_read_lux("handle", TRUE)

SpecLux == InitLux /\ [][NextLux]_vars

(***************************************************************************)
(* The setter-pair scenario: an initialised handle whose shadows hold the  *)
(* default or a value read back from the device; the caller makes the last *)
(* two calls of a behaviour, both setters, and they are traced together    *)
(* with the shadows they started from.                                     *)
(***************************************************************************)
\* psm_cache after init, and after enable_power_saving(true) and
\* set_power_saving_mode(3)
StartPsm == {0, 7}

InitPair ==
    /\ i2c_port = "i2c0"
    /\ config_cache \in {DefaultConfig} \cup OutOfBandConf
    /\ psm_cache \in StartPsm
    /\ initialized = TRUE
    /\ current_gain = DecodeGain(config_cache)
    /\ current_it = DecodeIt(config_cache)
    /\ dev_conf = config_cache
    /\ op = "none"
    /\ arg = <<>>
    /\ ret = VEML7700_OK
    /\ bus = <<>>
    /\ out = NoValue
    /\ slept = 0
    /\ nops = MaxOps - 2
    /\ init_last = VEML7700_OK
    /\ init_run = VEML7700_OK
    /\ device = "any"
    /\ hist = [on |-> TRUE, calls |-> <<>>, config |-> config_cache, psm |-> psm_cache]
    /\ CompassAtRest
    /\ StartupAtRest
    /\ ThreadsAtRest

NextPair ==
    \/ \E gain \in veml7700_gain_t : veml7700_set_gain("handle", gain)
    \/ \E it \in veml7700_it_t : veml7700_set_integration_time("handle", it)
    \/ \E pers \in 0..MaxPers : veml7700_set_persistence("handle", pers)
    \/ \E enable \in BOOLEAN : veml7700_enable_interrupt("handle", enable)
    \/ \E enable \in BOOLEAN : veml7700_enable_power_saving("handle", enable)
    \/ \E psm \in 0..MaxPsm : veml7700_set_power_saving_mode("handle", psm)

SpecPair == InitPair /\ [][NextPair]_vars

(***************************************************************************)
(* Two threads in the setters of one handle.  Thread 1 runs                *)
(* veml7700_set_gain and thread 2 veml7700_set_persistence on the handle a *)
(* successful init left; the driver takes no lock, so the loads and stores *)
(* of sensor->config_cache and the bus writes of the two calls interleave. *)
(* The access is a data race, so what one statement compiles to is open:   *)
(* the "plain" build loads and stores config_cache in every statement, the *)
(* "fused" build loads it once, keeps it in a register and stores it once. *)
(***************************************************************************)
Threads == {1, 2}

\* the function each thread calls
ThreadFn == <<"set_gain", "set_persistence">>

Builds == {"plain", "fused"}

\* the persistence mask written nine bits wide
SetterField_wide(fn) ==
    IF fn = "set_gain" THEN [mask |-> 3, shift |-> 11] ELSE [mask |-> 511, shift |-> 4]

\* the mask and the shift of the two statements of each setter
SetterField(fn) ==
    IF fn = "set_gain" THEN [mask |-> 3, shift |-> 11] ELSE [mask |-> 3, shift |-> 4]

\* thread t is inside its call
Busy(t) == thr.pc[t] \notin {"idle", "done"}

\* what a thread's step leaves alone besides the shadow, the bus and the
\* handle's current_gain
thread_frame == <<i2c_port, psm_cache, initialized, current_it, slept, nops,
                  init_last, init_run, device, hist, compass, tmp117,
                  op, arg, ret, out>>

\* thread t moves to `pc` with `reg` in its register; the step overlaps the
\* other thread's call when that thread is inside one
Advance(t, pc, reg) ==
    thr' = [thr EXCEPT !.pc[t] = pc, !.reg[t] = reg,
                       !.overlapped = @ \/ Busy(3 - t)]

\* the call and its entry check: if (!sensor || !sensor->initialized)
thread_call(t, value) ==
    /\ thr.pc[t] = "idle"
    /\ initialized
    /\ thr' = [thr EXCEPT !.pc[t] = "clear_load", !.val[t] = value,
                          !.overlapped = @ \/ Busy(3 - t)]
    /\ UNCHANGED <<thread_frame, config_cache, current_gain, dev_conf, bus>>

\* sensor->config_cache &= ~(mask << shift): the load
thread_clear_load(t) ==
    /\ thr.pc[t] = "clear_load"
    /\ LET f == SetterField(ThreadFn[t])
       IN  IF thr.build = "fused"
           THEN Advance(t, "set_store", BitClear(config_cache, Shl(f.mask, f.shift)))
           ELSE Advance(t, "clear_store", config_cache)
    /\ UNCHANGED <<thread_frame, config_cache, current_gain, dev_conf, bus>>

\* sensor->config_cache &= ~(mask << shift): the store
thread_clear_store(t) ==
    /\ thr.pc[t] = "clear_store"
    /\ LET f == SetterField(ThreadFn[t])
       IN  config_cache' = BitClear(thr.reg[t], Shl(f.mask, f.shift))
    /\ Advance(t, "set_load", thr.reg[t])
    /\ UNCHANGED <<thread_frame, current_gain, dev_conf, bus>>

\* sensor->config_cache |= (value << shift): the load
thread_set_load(t) ==
    /\ thr.pc[t] = "set_load"
    /\ Advance(t, "set_store", config_cache)
    /\ UNCHANGED <<thread_frame, config_cache, current_gain, dev_conf, bus>>

\* sensor->config_cache |= (value << shift): the store
thread_set_store(t) ==
    /\ thr.pc[t] = "set_store"
    /\ LET f == SetterField(ThreadFn[t])
           stored == BitOr(thr.reg[t], Shl(thr.val[t], f.shift))
       IN  /\ config_cache' = stored
           /\ Advance(t, IF thr.build = "fused" THEN "write" ELSE "arg_load", stored)
    /\ UNCHANGED <<thread_frame, current_gain, dev_conf, bus>>

\* the argument sensor->config_cache of veml7700_write_reg: the load
thread_arg_load(t) ==
    /\ thr.pc[t] = "arg_load"
    /\ Advance(t, "write", config_cache)
    /\ UNCHANGED <<thread_frame, config_cache, current_gain, dev_conf, bus>>

\* veml7700_write_reg: the blocking bus write has returned and the thread
\* holds its status
thread_write(t) ==
    /\ thr.pc[t] = "write"
    /\ \E w \in WriteOutcomes(TRUE, VEML7700_REG_ALS_CONF, thr.reg[t]) :
         /\ bus' = w.calls
         /\ dev_conf' = DevConfAfter(dev_conf, w.calls)
         /\ thr' = [thr EXCEPT !.pc[t] = "return", !.ret[t] = w.status,
                               !.overlapped = @ \/ Busy(3 - t)]
    /\ UNCHANGED <<thread_frame, config_cache, current_gain>>

\* the rest of the call: set_gain stores current_gain when the status is
\* VEML7700_OK, and either function returns the status
thread_return(t) ==
    /\ thr.pc[t] = "return"
    /\ current_gain' = IF ThreadFn[t] = "set_gain" /\ thr.ret[t] = VEML7700_OK
                       THEN thr.val[t] ELSE current_gain
    /\ thr' = [thr EXCEPT !.pc[t] = "done", !.overlapped = @ \/ Busy(3 - t)]
    /\ UNCHANGED <<thread_frame, config_cache, dev_conf, bus>>

InitThreads ==
    /\ i2c_port = "i2c0"
    /\ config_cache = DefaultConfig
    /\ psm_cache = 0
    /\ initialized = TRUE
    /\ current_gain = VEML7700_GAIN_1
    /\ current_it = VEML7700_IT_100MS
    /\ dev_conf = DevConfAfter(NoValue, InitCalls)
    /\ op = "init"
    /\ arg = <<"handle", "i2c0">>
    /\ ret = VEML7700_OK
    /\ bus = InitCalls
    /\ out = NoValue
    /\ slept = 10
    /\ nops = 0
    /\ init_last = VEML7700_OK
    /\ init_run = VEML7700_OK
    /\ device = "any"
    /\ hist = [on |-> FALSE, calls |-> <<>>]
    /\ CompassAtRest
    /\ StartupAtRest
    /\ \E build \in Builds :
         thr = [pc |-> <<"idle", "idle">>, reg |-> <<0, 0>>, val |-> <<0, 0>>,
                ret |-> <<0, 0>>, overlapped |-> FALSE, build |-> build]

NextThreads ==
    \/ \E gain \in veml7700_gain_t : thread_call(1, gain)
    \/ \E pers \in 0..MaxPers : thread_call(2, pers)
    \/ \E t \in Threads : thread_clear_load(t)
    \/ \E t \in Threads : thread_clear_store(t)
    \/ \E t \in Threads : thread_set_load(t)
    \/ \E t \in Threads : thread_set_store(t)
    \/ \E t \in Threads : thread_arg_load(t)
    \/ \E t \in Threads : thread_write(t)
    \/ \E t \in Threads : thread_return(t)

SpecThreads == InitThreads /\ [][NextThreads]_vars

(***************************************************************************)
(* The CMPS12 compass driver (src/target/standalone/src/cmps12.c).         *)
(***************************************************************************)
ANGLE_8_REG == 1

\* bytes the compass may deliver, and bytes an unwritten buffer cell may hold
CmpsBytes == {1, 255}

\* what a bus primitive asked for `len` bytes returns
CmpsResults(len) == (-MaxErr)..len

\* (int8_t)b for a byte b
Int8(b) == IF b >= 128 THEN b - 256 ELSE b

\* what the caller observes of a compass call
CmpsReturn(name, args, result, calls, o) ==
    /\ op' = name
    /\ arg' = args
    /\ ret' = result
    /\ bus' = calls
    /\ out' = o
    /\ UNCHANGED <<veml_state, tmp117, thr>>

\* bool cmps12_init(compass, i2c)
cmps12_init(i2c) ==
    \E result \in CmpsResults(1), test_byte \in CmpsBytes :
        /\ compass' = [i2c |-> i2c, angle8 |-> 0, angle16 |-> 0, pitch |-> 0, roll |-> 0]
        /\ CmpsReturn("cmps12_init", <<i2c>>, result >= 0,
                      <<BusCall("i2c_read_blocking",
                                IF result = 1 THEN <<test_byte>> ELSE <<>>, 1, result)>>,
                      NoValue)

\* bool cmps12_read(compass); `data` is the buffer after the read: the bytes
\* delivered, then whatever the unwritten cells held
cmps12_read ==
    /\ \E r1 \in CmpsResults(1) :
         LET c1 == BusCall("i2c_write_blocking", <<ANGLE_8_REG>>, 1, r1)
         IN  IF r1 < 0
             THEN /\ UNCHANGED compass
                  /\ CmpsReturn("cmps12_read", <<>>, FALSE, <<c1>>, NoValue)
             ELSE \E r2 \in CmpsResults(5) :
                    IF r2 < 0
                    THEN /\ UNCHANGED compass
                         /\ CmpsReturn("cmps12_read", <<>>, FALSE,
                                       <<c1, BusCall("i2c_read_blocking", <<>>, 5, r2)>>,
                                       NoValue)
                    ELSE \E data \in [1..5 -> CmpsBytes] :
                           LET high_byte == data[2]
                               low_byte == data[3]
                           IN  /\ compass' = [compass EXCEPT
                                     !.angle8 = data[1],
                                     !.pitch = Int8(data[4]),
                                     !.roll = Int8(data[5]),
                                     !.angle16 = BitOr(Shl(high_byte, 8), low_byte)]
                               /\ CmpsReturn("cmps12_read", <<>>, TRUE,
                                             <<c1, BusCall("i2c_read_blocking",
                                                           SubSeq(data, 1, r2), 5, r2)>>,
                                             NoValue)

InitCmps12 ==
    /\ SensorAtRest
    /\ CompassAtRest
    /\ StartupAtRest
    /\ ThreadsAtRest
    /\ op = "none"
    /\ arg = <<>>
    /\ ret = FALSE
    /\ bus = <<>>
    /\ out = NoValue

NextCmps12 ==
    \/ cmps12_init("i2c0")
    \/ cmps12_read

SpecCmps12 == InitCmps12 /\ [][NextCmps12]_vars

\* static const char* directions[]
directions ==
    <<"N", "NNE", "NE", "ENE", "E", "ESE", "SE", "SSE",
      "S", "SSW", "SW", "WSW", "W", "WNW", "NW", "NNW">>

\* the rounding term + 0.5 left out
CardinalVal_trunc(angle) == (4 * angle) \div 90

\* the argument taken in tenths of a degree
CardinalVal_tenths(angle) == (4 * angle + 450) \div 900

\* int val = (int)((angle / 22.5) + 0.5): the floor of (4*angle + 45) / 90,
\* which is never a whole number, so the double arithmetic rounds nothing away
CardinalVal(angle) == (4 * angle + 45) \div 90

\* const char* cmps12_get_cardinal_direction(uint16_t angle), as a function:
\* the index used and the string returned
CardinalDirection(angle) ==
    LET index == CardinalVal(angle) % 16
    IN  [index |-> index, name |-> directions[index + 1]]

\* the call on the argument drawn at the start
cmps12_get_cardinal_direction ==
    /\ op = "none"
    /\ UNCHANGED compass
    /\ CmpsReturn("cmps12_get_cardinal_direction", arg, ret, <<>>,
                  CardinalDirection(arg[1]))

\* every uint16_t argument
InitCardinal ==
    /\ SensorAtRest
    /\ CompassAtRest
    /\ StartupAtRest
    /\ ThreadsAtRest
    /\ op = "none"
    /\ arg \in {<<angle>> : angle \in 0..65535}
    /\ ret = FALSE
    /\ bus = <<>>
    /\ out = NoValue

NextCardinal == cmps12_get_cardinal_direction

SpecCardinal == InitCardinal /\ [][NextCardinal]_vars

(***************************************************************************)
(* The TMP117 start-up checks of main() (src/tmp117.c, and the build of    *)
(* src/target/standalone/src/tmp117.c whose begin() always succeeds).      *)
(* main() calls i2c_init, check_i2c(frequency), check_status(frequency);   *)
(* a check that does not return stays in its while (1) loop.               *)
(***************************************************************************)
MaxSpins == 2       \* iterations of a halt loop that are told apart

PICO_ERROR_TIMEOUT == -3
PICO_ERROR_GENERIC == -1
TMP117_OK == 0
TMP117_ID_NOT_FOUND == -2

\* baud rates i2c_init may report
Frequencies == {0, 1, 1000, 100000, 400000, 1000000, 3400000}

\* what the library's begin() may return: the four named codes and others
BeginResults == {TMP117_OK, PICO_ERROR_TIMEOUT, PICO_ERROR_GENERIC,
                 TMP117_ID_NOT_FOUND, -4, 1}

\* the two builds: begin() of the TMP117 library, or the stub
BeginKinds == {"library", "stub"}

\* int begin(void)
begin(kind) == IF kind = "stub" THEN {TMP117_OK} ELSE BeginResults

\* the switch with the while (1) of the TMP117_ID_NOT_FOUND case left out
StatusHalts_id_returns(status) ==
    CASE status = TMP117_OK -> FALSE
      [] status = PICO_ERROR_TIMEOUT -> TRUE
      [] status = PICO_ERROR_GENERIC -> TRUE
      [] status = TMP117_ID_NOT_FOUND -> FALSE
      [] OTHER -> TRUE

\* switch (status) of check_status: does the case end in while (1)
StatusHalts(status) ==
    CASE status = TMP117_OK -> FALSE
      [] status = PICO_ERROR_TIMEOUT -> TRUE
      [] status = PICO_ERROR_GENERIC -> TRUE
      [] status = TMP117_ID_NOT_FOUND -> TRUE
      [] OTHER -> TRUE

\* uint frequency = i2c_init(I2C_PORT, I2C_FREQ) in main()
i2c_init ==
    /\ tmp117.pc = "i2c_init"
    /\ \E f \in Frequencies :
         tmp117' = [tmp117 EXCEPT !.frequency = f, !.pc = "check_i2c"]
    /\ UNCHANGED <<veml_state, compass, thr, op, arg, ret, bus, out>>

\* void check_i2c(uint frequency): returns, or enters its while (1)
check_i2c ==
    /\ tmp117.pc = "check_i2c"
    /\ tmp117' = [tmp117 EXCEPT !.pc = IF tmp117.frequency = 0
                                       THEN "check_i2c_halt"
                                       ELSE "check_status"]
    /\ UNCHANGED <<veml_state, compass, thr, op, arg, ret, bus, out>>

\* void check_status(uint frequency): returns, or enters a while (1)
check_status ==
    /\ tmp117.pc = "check_status"
    /\ \E status \in begin(tmp117.begin) :
         tmp117' = [tmp117 EXCEPT !.status = status,
                                  !.pc = IF StatusHalts(status)
                                         THEN "check_status_halt"
                                         ELSE "returned"]
    /\ UNCHANGED <<veml_state, compass, thr, op, arg, ret, bus, out>>

\* one iteration of while (1) { tight_loop_contents(); }
tight_loop_contents ==
    /\ tmp117.pc \in {"check_i2c_halt", "check_status_halt"}
    /\ tmp117' = [tmp117 EXCEPT !.spins = IF @ < MaxSpins THEN @ + 1 ELSE @]
    /\ UNCHANGED <<veml_state, compass, thr, op, arg, ret, bus, out>>

InitTmp117 ==
    /\ SensorAtRest
    /\ CompassAtRest
    /\ ThreadsAtRest
    /\ \E kind \in BeginKinds :
         tmp117 = [pc |-> "i2c_init", frequency |-> 0, begin |-> kind,
                   status |-> 0, spins |-> 0]
    /\ op = "none"
    /\ arg = <<>>
    /\ ret = VEML7700_OK
    /\ bus = <<>>
    /\ out = NoValue

NextTmp117 ==
    \/ i2c_init
    \/ check_i2c
    \/ check_status
    \/ tight_loop_contents

\* the processor keeps executing: every enabled step is eventually taken
SpecTmp117 == InitTmp117 /\ [][NextTmp117]_vars /\ WF_vars(NextTmp117)

(***************************************************************************)
(* Properties.                                                             *)
(***************************************************************************)
\* a step that is one public call (not a stuttering step)
Call == nops' = nops + 1

\* the 16-bit value the i-th bus call of the last operation delivered
Delivered(i) == bus[i].bytes[1] + 256 * bus[i].bytes[2]

\* the i-th bus call of the last operation transferred what was asked
Complete(i) == bus[i].res = bus[i].len

\* C1 (as stated): on a null handle, on a handle never successfully
\* initialised, or on one whose most recent init call failed at any step
\* (its argument check included), every function other than init returns
\* VEML7700_ERROR_CONFIG and invokes no bus primitive.
C1_RejectedAfterAnyFailedInit ==
    [][(Call /\ op' # "init" /\ (arg'[1] = "NULL" \/ init_last # VEML7700_OK))
          => (ret' = VEML7700_ERROR_CONFIG /\ bus' = <<>>)]_vars

\* C1 (amended): the same for a null handle, a handle never successfully
\* initialised, or one whose most recent init that got past its argument
\* check failed at any later step.
C1_RejectedWhenUninitialized ==
    [][(Call /\ op' # "init" /\ (arg'[1] = "NULL" \/ init_run # VEML7700_OK))
          => (ret' = VEML7700_ERROR_CONFIG /\ bus' = <<>>)]_vars

\* an init that failed at one of its writes, then a rejected call
C1_Witness ==
    /\ op \notin {"init", "none"}
    /\ arg[1] = "handle"
    /\ init_run = VEML7700_ERROR_I2C_TX
    /\ ret = VEML7700_ERROR_CONFIG
    /\ bus = <<>>

\* C2: once init has read the device ID, the check passes (init goes on to
\* its first register write) exactly if the low byte is 0x81 or the high
\* byte is 0x28; with neither, init returns VEML7700_ERROR_INIT, has
\* written no register and leaves the handle uninitialized.  The first
\* conjunct covers every 16-bit ID; it does not depend on the state and is
\* evaluated in the initial state only.
C2_DeviceIdCheck ==
    /\ nops = 0 =>
         \A id \in 0..65535 :
             DeviceIdAccepted(id) <=> (id % 256 = 129 \/ id \div 256 = 40)
    /\ (op = "init" /\ Len(bus) >= 2 /\ bus[2].res = 2) =>
         LET id == Delivered(2)
             sentinel == id % 256 = 129 \/ id \div 256 = 40
         IN  /\ (Len(bus) > 2) <=> sentinel
             /\ ~sentinel =>
                  /\ ret = VEML7700_ERROR_INIT
                  /\ \A i \in 1..Len(bus) : bus[i].len # 3
                  /\ ~initialized

\* init rejected an ID that matches neither sentinel
C2_Witness ==
    /\ op = "init"
    /\ Len(bus) = 2
    /\ bus[2].res = 2
    /\ Delivered(2) = 40
    /\ ret = VEML7700_ERROR_INIT
    /\ ~initialized

\* C3: config_cache mirrors the value last written successfully to
\* register 0x00: a set_gain, set_integration_time, set_persistence or
\* enable_interrupt call whose write fails leaves config_cache as it was
\* before the call.
C3_ShadowKeptOnFailedWrite ==
    [][(Call /\ op' \in {"set_gain", "set_integration_time",
                         "set_persistence", "enable_interrupt"}
             /\ ret' # VEML7700_OK)
          => config_cache' = config_cache]_vars

\* C4: set_gain(g) sets current_gain to g exactly when its write of
\* register 0x00 completes and keeps it otherwise; set_integration_time(t)
\* does the same with current_it.
C4_GainItOnlyOnSuccess ==
    [][Call =>
         LET written == Len(bus') = 1 /\ bus'[1].res = 3
         IN  /\ op' = "set_gain" =>
                  current_gain' = IF written THEN arg'[2] ELSE current_gain
             /\ op' = "set_integration_time" =>
                  current_it' = IF written THEN arg'[2] ELSE current_it]_vars

\* a set_gain whose write failed and which left another gain in place
C4_Witness ==
    /\ op = "set_gain"
    /\ Len(bus) = 1
    /\ bus[1].res # 3
    /\ current_gain # arg[2]

\* C5: a successful read_lux stores raw * resolution(g, t), g and t being
\* bits 12..11 and 9..6 of the configuration value the device delivered in
\* that call, and leaves that value and its two fields in config_cache,
\* current_gain and current_it.
C5_LuxFromFreshConfig ==
    (op = "read_lux" /\ ret = VEML7700_OK) =>
        LET raw == Delivered(2)
            conf == Delivered(4)
            g == (conf \div 2048) % 4
            t == (conf \div 64) % 16
        IN  /\ bus[1].bytes = <<VEML7700_REG_ALS>>
            /\ bus[3].bytes = <<VEML7700_REG_ALS_CONF>>
            /\ out = raw * veml7700_get_resolution(g, t)
            /\ config_cache = conf
            /\ current_gain = g
            /\ current_it = t

\* read_lux used a configuration the driver never wrote
C5_Witness ==
    /\ op = "read_lux"
    /\ ret = VEML7700_OK
    /\ dev_conf = 0
    /\ config_cache = 4864
    /\ current_gain = VEML7700_GAIN_1_8
    /\ current_it = VEML7700_IT_25MS
    /\ out = 1000 * 21504

\* C6: when read_lux reaches the bus, no bus call follows a failed one (so
\* a failed ALS read is not followed by the configuration read), and after
\* a failed call the output holds -1.0 and the return value is
\* VEML7700_ERROR_I2C_TX for a failed write, VEML7700_ERROR_I2C_RX for a
\* failed read.
C6_LuxReadFailure ==
    (op = "read_lux" /\ bus # <<>>) =>
        LET n == Len(bus)
        IN  /\ \A i \in 1..(n - 1) : Complete(i)
            /\ ~Complete(n) =>
                 /\ out = LuxError
                 /\ ret = IF bus[n].fn = "i2c_write_blocking"
                          THEN VEML7700_ERROR_I2C_TX
                          ELSE VEML7700_ERROR_I2C_RX
            /\ Complete(n) => n = 4 /\ ret = VEML7700_OK

\* the configuration re-read of read_lux came back short
C6_Witness ==
    /\ op = "read_lux"
    /\ Len(bus) = 4
    /\ bus[4].res = 1
    /\ out = LuxError
    /\ ret = VEML7700_ERROR_I2C_RX

\* C7: when init's ID check passes and every write completes, init has
\* made exactly the calls: pointer 0x07, 2-byte read, then writes of 0x0000
\* to 0x00, 0x0000 to 0x03, 0xFFFF to 0x01 and 0x0000 to 0x02, and returns
\* VEML7700_OK with the handle initialized, gain x1, 100 ms and both
\* caches 0.
C7_InitSequence ==
    (op = "init" /\ (ret = VEML7700_OK
                      \/ (Len(bus) >= 3 /\ \A i \in 3..Len(bus) : Complete(i)))) =>
        /\ Len(bus) = 6
        /\ bus[1] = BusCall("i2c_write_blocking", <<7>>, 1, 1)
        /\ bus[2].fn = "i2c_read_blocking" /\ bus[2].len = 2 /\ bus[2].res = 2
        /\ bus[3] = BusCall("i2c_write_blocking", <<0, 0, 0>>, 3, 3)
        /\ bus[4] = BusCall("i2c_write_blocking", <<3, 0, 0>>, 3, 3)
        /\ bus[5] = BusCall("i2c_write_blocking", <<1, 255, 255>>, 3, 3)
        /\ bus[6] = BusCall("i2c_write_blocking", <<2, 0, 0>>, 3, 3)
        /\ ret = VEML7700_OK
        /\ initialized
        /\ current_gain = VEML7700_GAIN_1
        /\ current_it = VEML7700_IT_100MS
        /\ config_cache = 0
        /\ psm_cache = 0

\* a successful init
C7_Witness ==
    /\ op = "init"
    /\ ret = VEML7700_OK
    /\ Len(bus) = 6
    /\ slept = 10

\* C8: when the ID check passes and init's write of register 0x00 fails,
\* init returns VEML7700_ERROR_INIT.
C8_ConfigWriteFailureIsInitError ==
    (op = "init" /\ Len(bus) = 3 /\ ~Complete(3)) => ret = VEML7700_ERROR_INIT

\* the functions that make one veml7700_write_reg call
WriteFunctions ==
    {"set_gain", "set_integration_time", "set_persistence", "enable_interrupt",
     "set_high_threshold", "set_low_threshold", "enable_power_saving",
     "set_power_saving_mode", "power_on", "shutdown"}

\* the functions that make one veml7700_read_reg call
ReadFunctions ==
    {"read_als", "read_white", "read_interrupt_status", "read_device_id"}

\* C9: a register write is one 3-byte bus write and succeeds only if the
\* bus reports 3, otherwise it yields VEML7700_ERROR_I2C_TX; a register
\* read is one 1-byte pointer write, yielding VEML7700_ERROR_I2C_TX and no
\* bus read unless the bus reports 1, then one 2-byte read, yielding
\* VEML7700_ERROR_I2C_RX unless the bus reports 2; no primitive is invoked
\* twice.
C9_Transport ==
    /\ (op \in WriteFunctions /\ bus # <<>>) =>
         /\ Len(bus) = 1
         /\ bus[1].fn = "i2c_write_blocking" /\ bus[1].len = 3
         /\ ret = IF bus[1].res = 3 THEN VEML7700_OK ELSE VEML7700_ERROR_I2C_TX
    /\ (op \in ReadFunctions /\ bus # <<>>) =>
         /\ bus[1].fn = "i2c_write_blocking" /\ bus[1].len = 1
         /\ bus[1].res # 1 => Len(bus) = 1 /\ ret = VEML7700_ERROR_I2C_TX
         /\ bus[1].res = 1 =>
              /\ Len(bus) = 2
              /\ bus[2].fn = "i2c_read_blocking" /\ bus[2].len = 2
              /\ ret = IF bus[2].res = 2 THEN VEML7700_OK ELSE VEML7700_ERROR_I2C_RX

\* a short read reported as a receive error
C9_Witness ==
    /\ op = "read_als"
    /\ Len(bus) = 2
    /\ bus[2].res = 1
    /\ ret = VEML7700_ERROR_I2C_RX

\* gain factors in eighths and integration times in ms, as the data sheet
\* names the enumeration values
GainFactor8 ==
    (VEML7700_GAIN_1 :> 8) @@ (VEML7700_GAIN_2 :> 16)
        @@ (VEML7700_GAIN_1_8 :> 1) @@ (VEML7700_GAIN_1_4 :> 2)

IntegrationMs ==
    (VEML7700_IT_25MS :> 25) @@ (VEML7700_IT_50MS :> 50) @@ (VEML7700_IT_100MS :> 100)
        @@ (VEML7700_IT_200MS :> 200) @@ (VEML7700_IT_400MS :> 400)
        @@ (VEML7700_IT_800MS :> 800)

\* C10: for the 4 gains and 6 integration times, resolution(gain, it) is
\* 0.0042 * (2 / gainFactor) * (800 / integrationMs) clamped to
\* [0.0042, 2.1504], lies in that interval, and does not decrease when the
\* gain factor or the integration time decreases; the resolution a
\* successful read_lux applied lies in the interval too.
C10_Resolution ==
    /\ \A g \in veml7700_gain_t, it \in veml7700_it_t :
         LET r == veml7700_get_resolution(g, it)
             exact == (42 * 16 * 800) \div (GainFactor8[g] * IntegrationMs[it])
         IN  /\ r >= 42 /\ r <= 21504
             /\ r = IF exact > 21504 THEN 21504 ELSE IF exact < 42 THEN 42 ELSE exact
             /\ \A g2 \in veml7700_gain_t :
                  GainFactor8[g2] <= GainFactor8[g]
                      => veml7700_get_resolution(g2, it) >= r
             /\ \A it2 \in veml7700_it_t :
                  IntegrationMs[it2] <= IntegrationMs[it]
                      => veml7700_get_resolution(g, it2) >= r
    /\ (op = "read_lux" /\ ret = VEML7700_OK) =>
         /\ out >= 42 * Delivered(2)
         /\ out <= 21504 * Delivered(2)

\* read_lux applied the largest resolution (gain x1/8, 25 ms)
C10_Witness ==
    /\ op = "read_lux"
    /\ ret = VEML7700_OK
    /\ Delivered(4) = 4864
    /\ Delivered(2) = 65535
    /\ out = 65535 * 21504

\* the last `n` traced calls
LastCalls(n) == SubSeq(hist.calls, Len(hist.calls) - n + 1, Len(hist.calls))

\* the traced calls end with a successful set_integration_time(800 ms), a
\* successful set_gain(gain) and a successful read_lux
LuxScenario(gain) ==
    /\ Len(hist.calls) >= 3
    /\ LastCalls(3) =
         << <<"set_integration_time", <<"handle", VEML7700_IT_800MS>>, VEML7700_OK>>,
            <<"set_gain", <<"handle", gain>>, VEML7700_OK>>,
            <<"read_lux", <<"handle", TRUE>>, VEML7700_OK>> >>

\* C11: on an initialised handle whose device stores what is written to
\* register 0x00 and returns a raw ALS count of 1000, after a successful
\* set_integration_time(800 ms), set_gain(x1) followed by read_lux yields
\* 8.4 lux (84000 units of 0.0001) and set_gain(x2) followed by read_lux
\* yields 4.2 lux (42000 units).
C11_LuxAfterGainAndIt ==
    /\ LuxScenario(VEML7700_GAIN_1) => out = 84000
    /\ LuxScenario(VEML7700_GAIN_2) => out = 42000

\* the x2 case of the scenario has run: 800 ms, then x2, then 4.2 lux read
C11_Witness ==
    /\ LuxScenario(VEML7700_GAIN_2)
    /\ out = 42000
    /\ dev_conf = Shl(VEML7700_IT_800MS, 6) + Shl(VEML7700_GAIN_2, 11)

\* the whole number nearest to angle / 22.5: the k with |angle/22.5 - k| < 1/2
IsRound(angle, k) == (4 * angle - 90 * k) < 45 /\ (90 * k - 4 * angle) < 45

\* C12: for every integer angle 0..359 cmps12_get_cardinal_direction returns
\* the entry at index round(angle / 22.5) mod 16 of the 16-point list N, NNE,
\* NE, ENE, E, ESE, SE, SSE, S, SSW, SW, WSW, W, WNW, NW, NNW, and for every
\* 16-bit angle the index it uses lies in 0..15.
C12_CardinalIndex ==
    op = "cmps12_get_cardinal_direction" =>
        /\ out.index \in 0..15
        /\ arg[1] <= 359 =>
              \E k \in 0..16 :
                 /\ IsRound(arg[1], k)
                 /\ out.index = k % 16
                 /\ out.name = <<"N", "NNE", "NE", "ENE", "E", "ESE", "SE", "SSE",
                                 "S", "SSW", "SW", "WSW", "W", "WNW", "NW",
                                 "NNW">>[(k % 16) + 1]

\* 349 degrees rounds to 16 and wraps to index 0, "N"
C12_Witness ==
    /\ op = "cmps12_get_cardinal_direction"
    /\ arg = <<349>>
    /\ out = [index |-> 0, name |-> "N"]

\* C13 (as stated): the direction is cyclic with period 3600,
\* direction(0) = direction(3600) = "N", and 225 is the smallest argument
\* whose result is not "N", that result being "NNE".
C13_FirstTransitionAt225 ==
    op = "cmps12_get_cardinal_direction" =>
        /\ arg[1] + 3600 <= 65535 => CardinalDirection(arg[1] + 3600).name = out.name
        /\ arg[1] \in {0, 3600} => out.name = "N"
        /\ arg[1] < 225 => out.name = "N"
        /\ arg[1] = 225 => out.name = "NNE"

\* C13 (amended): the same with the argument in degrees: 12 is the smallest
\* argument whose result is not "N", that result being "NNE".
C13_FirstTransitionAt12 ==
    op = "cmps12_get_cardinal_direction" =>
        /\ arg[1] + 3600 <= 65535 => CardinalDirection(arg[1] + 3600).name = out.name
        /\ arg[1] \in {0, 3600} => out.name = "N"
        /\ arg[1] < 12 => out.name = "N"
        /\ arg[1] = 12 => out.name = "NNE"

\* the call on 12 has returned "NNE"
C13_Witness ==
    /\ op = "cmps12_get_cardinal_direction"
    /\ arg = <<12>>
    /\ out.name = "NNE"

\* the fields cmps12_read parses out of the five bytes delivered
CmpsDecoded(bytes) ==
    [angle8 |-> bytes[1],
     angle16 |-> bytes[2] * 256 + bytes[3],
     pitch |-> IF bytes[4] >= 128 THEN bytes[4] - 256 ELSE bytes[4],
     roll |-> IF bytes[5] >= 128 THEN bytes[5] - 256 ELSE bytes[5]]

\* C14: cmps12_read issues a 1-byte write of register pointer 1 followed by
\* a 5-byte read; when both succeed it sets angle8 = byte0, angle16 =
\* byte1 * 256 + byte2, pitch = byte3 and roll = byte4 as signed 8-bit values
\* and returns true; when the pointer write fails no read is issued; when
\* either transaction fails it returns false and leaves angle8, angle16,
\* pitch and roll unchanged.  A transaction succeeds when the bus reports the
\* requested count, and fails on any shortfall or negative result.
C14_CompassRead ==
    [][op' = "cmps12_read" =>
         /\ Len(bus') \in 1..2
         /\ bus'[1] = [fn |-> "i2c_write_blocking", bytes |-> <<1>>, len |-> 1,
                       res |-> bus'[1].res]
         /\ bus'[1].res # 1 => Len(bus') = 1
         /\ bus'[1].res = 1 =>
               /\ Len(bus') = 2
               /\ bus'[2].fn = "i2c_read_blocking"
               /\ bus'[2].len = 5
         /\ (bus'[1].res = 1 /\ bus'[2].res = 5) =>
               /\ ret' = TRUE
               /\ compass' = [i2c |-> compass.i2c] @@ CmpsDecoded(bus'[2].bytes)
         /\ (\E i \in 1..Len(bus') : bus'[i].res # bus'[i].len) =>
               /\ ret' = FALSE
               /\ compass' = compass]_vars

\* the positions of main() after check_i2c has returned
AfterCheckI2c == {"check_status", "check_status_halt", "returned"}

\* C15: check_i2c(frequency) returns to its caller iff frequency is
\* non-zero and otherwise spins forever; check_status returns iff begin()
\* yields the success code and spins forever for every other status
\* (timeout, generic error, ID not found, unknown); with the begin() that
\* always succeeds check_status always returns.
C15_StartupChecks ==
    /\ [](tmp117.pc \in AfterCheckI2c => tmp117.frequency # 0)
    /\ [](tmp117.pc = "check_i2c_halt" => tmp117.frequency = 0)
    /\ [](tmp117.pc = "returned" => tmp117.status = TMP117_OK)
    /\ [](tmp117.pc = "check_status_halt" => tmp117.status # TMP117_OK)
    /\ [](tmp117.begin = "stub" => tmp117.pc # "check_status_halt")
    /\ [][tmp117.pc \in {"check_i2c_halt", "check_status_halt"}
            => tmp117'.pc = tmp117.pc]_vars
    /\ (tmp117.pc = "check_i2c" /\ tmp117.frequency # 0)
          ~> (tmp117.pc \in AfterCheckI2c)
    /\ (tmp117.pc = "check_i2c" /\ tmp117.frequency = 0)
          ~> [](tmp117.pc = "check_i2c_halt")
    /\ (tmp117.pc = "check_status" /\ tmp117.begin = "stub")
          ~> [](tmp117.pc = "returned")

\* check_status spinning on the ID-not-found status of the library's begin()
C15_Witness ==
    /\ tmp117.pc = "check_status_halt"
    /\ tmp117.status = TMP117_ID_NOT_FOUND
    /\ tmp117.frequency # 0
    /\ tmp117.spins = MaxSpins

\* bits lo .. lo+width-1 of x
Field(x, lo, width) == (x \div (2 ^ lo)) % (2 ^ width)

\* x and y agree on every bit outside bits lo .. lo+width-1
SameOutside(x, y, lo, width) ==
    /\ x % (2 ^ lo) = y % (2 ^ lo)
    /\ x \div (2 ^ (lo + width)) = y \div (2 ^ (lo + width))

\* the call made exactly one bus call: a 3-byte write of `value` to `reg`
WroteOnce(reg, value) ==
    /\ Len(bus') = 1
    /\ bus'[1].fn = "i2c_write_blocking"
    /\ bus'[1].len = 3
    /\ bus'[1].bytes = <<reg, value % 256, value \div 256>>

\* a step that is a call of `name` on the initialised handle
CallOn(name) == Call /\ op' = name /\ arg'[1] = "handle" /\ initialized

\* an enable argument as the bit it selects
Bit(enable) == IF enable THEN 1 ELSE 0

\* the shadow a setter of config_cache leaves, by the setter's name
ConfigAfter(cache, name, a) ==
    CASE name = "set_gain" -> ConfigWithGain(cache, a)
      [] name = "set_integration_time" -> ConfigWithIt(cache, a)
      [] name = "set_persistence" -> ConfigWithPers(cache, a)
      [] name = "enable_interrupt" -> ConfigWithInt(cache, a)

\* the shadow a setter of psm_cache leaves, by the setter's name
PsmAfter(cache, name, a) ==
    CASE name = "enable_power_saving" -> PsmWithEnable(cache, a)
      [] name = "set_power_saving_mode" -> PsmWithMode(cache, a)

\* the traced calls are two successful calls of different setters that are
\* both in `names`
PairOf(names) ==
    /\ Len(hist.calls) = 2
    /\ hist.calls[1][1] \in names
    /\ hist.calls[2][1] \in names
    /\ hist.calls[1][1] # hist.calls[2][1]
    /\ hist.calls[1][3] = VEML7700_OK
    /\ hist.calls[2][3] = VEML7700_OK

\* the shadows the two traced calls would leave in the order called and in
\* the opposite order, from the shadows tracing started with
ConfigInOrder ==
    ConfigAfter(ConfigAfter(hist.config, hist.calls[1][1], hist.calls[1][2][2]),
                hist.calls[2][1], hist.calls[2][2][2])

ConfigSwapped ==
    ConfigAfter(ConfigAfter(hist.config, hist.calls[2][1], hist.calls[2][2][2]),
                hist.calls[1][1], hist.calls[1][2][2])

PsmInOrder ==
    PsmAfter(PsmAfter(hist.psm, hist.calls[1][1], hist.calls[1][2][2]),
             hist.calls[2][1], hist.calls[2][2][2])

PsmSwapped ==
    PsmAfter(PsmAfter(hist.psm, hist.calls[2][1], hist.calls[2][2][2]),
             hist.calls[1][1], hist.calls[1][2][2])

\* two successful setters of different fields leave the shadow that the
\* same two calls leave in the opposite order
PairCommutes ==
    /\ PairOf({"set_gain", "set_integration_time", "set_persistence",
               "enable_interrupt"}) =>
          /\ config_cache = ConfigInOrder
          /\ config_cache = ConfigSwapped
          /\ dev_conf = config_cache
    /\ PairOf({"enable_power_saving", "set_power_saving_mode"}) =>
          /\ psm_cache = PsmInOrder
          /\ psm_cache = PsmSwapped

\* what a step made by one of the six setters satisfies
SetterStep ==
    /\ CallOn("set_gain") =>
        /\ SameOutside(config_cache, config_cache', 11, 2)
        /\ Field(config_cache', 11, 2) = arg'[2]
        /\ psm_cache' = psm_cache
        /\ WroteOnce(VEML7700_REG_ALS_CONF, config_cache')
    /\ CallOn("set_integration_time") =>
        /\ SameOutside(config_cache, config_cache', 6, 4)
        /\ Field(config_cache', 6, 4) = arg'[2]
        /\ psm_cache' = psm_cache
        /\ WroteOnce(VEML7700_REG_ALS_CONF, config_cache')
    /\ CallOn("set_persistence") =>
        /\ SameOutside(config_cache, config_cache', 4, 2)
        /\ Field(config_cache', 4, 2) = arg'[2]
        /\ psm_cache' = psm_cache
        /\ WroteOnce(VEML7700_REG_ALS_CONF, config_cache')
    /\ CallOn("enable_interrupt") =>
        /\ SameOutside(config_cache, config_cache', 1, 1)
        /\ Field(config_cache', 1, 1) = Bit(arg'[2])
        /\ psm_cache' = psm_cache
        /\ WroteOnce(VEML7700_REG_ALS_CONF, config_cache')
    /\ CallOn("enable_power_saving") =>
        /\ SameOutside(psm_cache, psm_cache', 0, 1)
        /\ Field(psm_cache', 0, 1) = Bit(arg'[2])
        /\ config_cache' = config_cache
        /\ WroteOnce(VEML7700_REG_POWER_SAVING, psm_cache')
    /\ CallOn("set_power_saving_mode") =>
        /\ SameOutside(psm_cache, psm_cache', 1, 2)
        /\ Field(psm_cache', 1, 2) = arg'[2]
        /\ config_cache' = config_cache
        /\ WroteOnce(VEML7700_REG_POWER_SAVING, psm_cache')

\* C16: each configuration setter changes only its own bit field of the
\* shadow it owns and writes the full 16-bit shadow: set_gain bits 12..11,
\* set_integration_time bits 9..6, set_persistence bits 5..4 and
\* enable_interrupt bit 1 of config_cache (register 0x00);
\* enable_power_saving bit 0 and set_power_saving_mode bits 2..1 of
\* psm_cache (register 0x03).  Consequently two successful setter calls
\* for different fields produce the same final shadow in either order.
C16_SettersOwnField == [][SetterStep]_vars /\ []PairCommutes

\* set_integration_time(100 ms) then set_gain(x1), both successful, on a
\* shadow that had every bit set: bits 9..6 and 12..11 are cleared, every
\* other bit is kept, and the device holds the same value
C16_Witness ==
    /\ hist.config = 65535
    /\ hist.calls =
         << <<"set_integration_time", <<"handle", VEML7700_IT_100MS>>, VEML7700_OK>>,
            <<"set_gain", <<"handle", VEML7700_GAIN_1>>, VEML7700_OK>> >>
    /\ config_cache = 65535 - Shl(15, 6) - Shl(3, 11)
    /\ dev_conf = config_cache

\* what a step made by a threshold setter satisfies
ThresholdStep ==
    /\ CallOn("set_high_threshold") =>
        /\ WroteOnce(1, arg'[2])
        /\ UNCHANGED sensor
    /\ CallOn("set_low_threshold") =>
        /\ WroteOnce(2, arg'[2])
        /\ UNCHANGED sensor

\* C17: set_high_threshold(x) and set_low_threshold(x) on an initialised
\* handle perform exactly one write of x to register 0x01 and 0x02
\* respectively, for every 16-bit x, and leave config_cache, psm_cache,
\* current_gain, current_it and initialized unchanged whether the write
\* succeeds or fails.
C17_ThresholdWrites == [][ThresholdStep]_vars

\* a set_low_threshold whose write was cut short, on a handle that holds a
\* non-default configuration
C17_Witness ==
    /\ op = "set_low_threshold"
    /\ arg = <<"handle", 4660>>
    /\ ret = VEML7700_ERROR_I2C_TX
    /\ bus[1].res = 2
    /\ initialized
    /\ config_cache # 0

\* what a step made by shutdown or power_on satisfies
PowerStep ==
    /\ CallOn("shutdown") =>
        /\ SameOutside(config_cache, config_cache', 0, 1)
        /\ Field(config_cache', 0, 1) = 1
        /\ WroteOnce(VEML7700_REG_ALS_CONF, config_cache')
        /\ slept' = 0
    /\ CallOn("power_on") =>
        /\ SameOutside(config_cache, config_cache', 0, 1)
        /\ Field(config_cache', 0, 1) = 0
        /\ WroteOnce(VEML7700_REG_ALS_CONF, config_cache')
        /\ slept' = IF ret' = VEML7700_OK THEN 10 ELSE 0
    /\ (CallOn("power_on") /\ ret' = VEML7700_OK
           /\ op = "shutdown" /\ ret = VEML7700_OK) =>
        /\ config_cache % 2 = 1
        /\ config_cache' = config_cache - 1

\* C18: shutdown sets bit 0 of config_cache and power_on clears it, each
\* leaving bits 15..1 unchanged and writing the full value to register 0x00;
\* power_on delays 10 ms only when its write succeeds; a power_on that
\* follows a successful shutdown, when it succeeds, leaves config_cache one
\* below what shutdown left: the value before shutdown with bit 0 clear.
C18_PowerBit == [][PowerStep]_vars

\* power_on after the shadow held every bit: bit 0 cleared, the rest kept,
\* the value on the device and the 10 ms delay made
C18_Witness ==
    /\ op = "power_on"
    /\ ret = VEML7700_OK
    /\ slept = 10
    /\ config_cache = 65534
    /\ dev_conf = 65534

\* C19: veml7700_init stores the default configuration in config_cache, and
\* x1 / 100 ms in current_gain / current_it, before its first register
\* write; when that write fails they are not rolled back: the failed init
\* leaves config_cache = 0x0000, current_gain = x1, current_it = 100 ms and
\* the handle uninitialised, whatever the fields held before.
C19_InitDefaultsNotRolledBack ==
    (op = "init" /\ Len(bus) = 3 /\ ~Complete(3)) =>
        /\ bus[3].fn = "i2c_write_blocking"
        /\ bus[3].bytes = <<VEML7700_REG_ALS_CONF, 0, 0>>
        /\ ret # VEML7700_OK
        /\ config_cache = 0
        /\ current_gain = VEML7700_GAIN_1
        /\ current_it = VEML7700_IT_100MS
        /\ ~initialized

\* a re-init whose first write failed, on a handle whose device had been
\* given gain x2: the shadow is back at the default, the device is not
C19_Witness ==
    /\ op = "init"
    /\ Len(bus) = 3
    /\ ~Complete(3)
    /\ dev_conf = Shl(VEML7700_GAIN_2, 11)
    /\ config_cache = 0
    /\ ~initialized

\* both threads have returned VEML7700_OK
BothReturnedOk ==
    /\ thr.pc = <<"done", "done">>
    /\ thr.ret = <<VEML7700_OK, VEML7700_OK>>

\* C20: the read-modify-write of the configuration shadow is not atomic
\* across threads: with set_gain and set_persistence running concurrently
\* and their load / modify / store / bus-write steps interleaved, a state
\* is reachable (C20_Witness) in which the final config_cache or the value
\* last written to register 0x00 lacks one of the two updates although both
\* calls returned OK.  The interleaving is what loses the update: when both
\* calls returned OK and neither made a step while the other was inside its
\* call, config_cache and register 0x00 carry both updates.
C20_UpdateLostOnlyWhenInterleaved ==
    (BothReturnedOk /\ ~thr.overlapped) =>
        /\ Field(config_cache, 11, 2) = thr.val[1]
        /\ Field(config_cache, 4, 2) = thr.val[2]
        /\ dev_conf = config_cache

\* both calls returned OK in the build that follows the statements one by
\* one, yet neither config_cache nor register 0x00 carries the persistence
\* update, while both carry the gain update
C20_Witness ==
    /\ BothReturnedOk
    /\ thr.build = "plain"
    /\ thr.val = <<VEML7700_GAIN_2, 1>>
    /\ Field(config_cache, 11, 2) = VEML7700_GAIN_2
    /\ Field(config_cache, 4, 2) # 1
    /\ Field(dev_conf, 4, 2) # 1

\* the functions that take an output pointer
OutputFunctions == {"read_als", "read_white", "read_lux", "read_interrupt_status",
                    "read_device_id"}

\* a step that is a call, other than init, made while the handle is
\* initialised
CallWhileInitialized == Call /\ op' # "init" /\ initialized

\* the call just made was given a null output pointer
NullOutput == op' \in OutputFunctions /\ arg'[2] = FALSE

\* C21 (as stated): once init has returned OK, no operation other than a
\* later init clears the initialized flag or changes the bus pointer,
\* whatever bus failures occur and including after shutdown; so every
\* subsequent operation on the handle passes the initialized check and
\* reaches the bus.
C21_EveryCallReachesBus ==
    [][CallWhileInitialized =>
         /\ initialized'
         /\ i2c_port' = i2c_port
         /\ arg'[1] = "handle" =>
               /\ ret' # VEML7700_ERROR_CONFIG
               /\ bus' # <<>>]_vars

\* C21 (amended): the same, where an operation that takes an output pointer
\* reaches the bus when that pointer is not null.
C21_InitializedKept ==
    [][CallWhileInitialized =>
         /\ initialized'
         /\ i2c_port' = i2c_port
         /\ arg'[1] = "handle" =>
               /\ ret' # VEML7700_ERROR_CONFIG
               /\ ~NullOutput => bus' # <<>>]_vars

\* read_device_id on a handle that is shut down (bit 0 of the shadow set):
\* it reached the bus, the read failed, and the handle is still initialised
C21_Witness ==
    /\ op = "read_device_id"
    /\ arg = <<"handle", TRUE>>
    /\ Field(config_cache, 0, 1) = 1
    /\ Len(bus) = 2
    /\ ret = VEML7700_ERROR_I2C_RX
    /\ initialized
    /\ i2c_port = "i2c0"

\* C22 (as stated): after every completed operation on an initialised
\* handle, for any sequence of operations and bus outcomes, current_gain
\* equals bits 12..11 of config_cache and current_it equals bits 9..6 of
\* config_cache.
C22_CurrentMatchesShadow ==
    initialized =>
        /\ current_gain = Field(config_cache, 11, 2)
        /\ current_it = Field(config_cache, 6, 4)

\* the six functions that write config_cache to register 0x00
ConfigWriters == {"set_gain", "set_integration_time", "set_persistence",
                  "enable_interrupt", "power_on", "shutdown"}

\* C23: with a device whose register 0x00 holds the last value successfully
\* written to it, right after any successful write of register 0x00 by
\* set_gain, set_integration_time, set_persistence, enable_interrupt,
\* power_on or shutdown the device register equals config_cache.
C23_DeviceEqualsShadowAfterWrite ==
    (op \in ConfigWriters /\ ret = VEML7700_OK) =>
        /\ dev_conf = config_cache
        /\ Len(bus) = 1
        /\ Complete(1)

\* set_persistence succeeded after a set_gain(x2) whose write had failed
\* (current_gain is still x1): the device now holds the gain change too
C23_Witness ==
    /\ op = "set_persistence"
    /\ arg = <<"handle", 1>>
    /\ ret = VEML7700_OK
    /\ current_gain = VEML7700_GAIN_1
    /\ config_cache = Shl(VEML7700_GAIN_2, 11) + Shl(1, 4)
    /\ dev_conf = config_cache

====
